---- MODULE Spec2Model ----
(***************************************************************************)
(* REFrameworkBuilder-MHWilds-noVR: the archive transcoder (transcodeZip   *)
(* in its four Go copies, and the extraction pipeline unzipFiltered +      *)
(* createZip), the release resolver (Go and shell copies), the catalog     *)
(* fetcher with its ETag cache, and main from the menu to the delivery.    *)
(*                                                                         *)
(* Paths, tags and filter rules are strings; an archive is the sequence of *)
(* its entries' stored names in stored order.                              *)
(***************************************************************************)
EXTENDS Integers, Sequences, FiniteSets, TLC

VARIABLES
    impl,            \* which program of the repository runs
    srcFiles,        \* sReader.File: the source archive's entry names, in order
    filters,         \* the filter rules handed to the transcoder
    pc,              \* position of the run
    processedFiles,  \* transcodeZip's loop counter (entries considered)
    dWriter,         \* entries created in the destination zip writer, in order
    progress,        \* the values handed to onProgress, in order
    err,             \* the error transcodeZip / unzipFiltered / createZip returned
    files,           \* the archives on disk: path -> NoFile or an archive
    extractDir,      \* paths materialised under the extraction directory
    outcome,         \* how main ended
    pass,            \* 1, or 2 when the source is the output of the first job
    rimpl,           \* which resolver runs: the Go one, or the shell's jq / python3 one
    releases,        \* the decoded release list, in the order of the catalog body
    devPrefix,       \* DEV_PREFIX
    maxList,         \* MAX_LIST
    items,           \* the resolved list
    rpc,             \* position of the resolver
    fimpl,           \* which program fetches the catalog
    srvVer,          \* the catalog the server holds now (its entity tag is its number)
    cacheBody,       \* the cache file releases.json
    cacheEtag,       \* the cache file etag (0: none or empty)
    fpc,             \* position of the fetching run
    fStatus,         \* resp.StatusCode of the run's catalog request (0: none)
    fErr,            \* why the run stopped, "" when it did not
    fList,           \* the catalog the run's release list was decoded from (0: empty list)
    fIO,             \* what became of the run's writes to the cache files
    fPrev,           \* how the run before this one ended ("none": there was none)
    mimpl,           \* which program's main runs
    SILENT,          \* the environment variable SILENT
    SKIP_DOWNLOAD,   \* the environment variable SKIP_DOWNLOAD
    tty,             \* standard input is a terminal
    cwd,             \* the working directory
    dlExists,        \* the user's Downloads folder exists
    fs,              \* the archives on disk: absolute path -> content
    mpc,             \* position of main
    typed,           \* what the user answered at the version menu
    choice,          \* choice (0: not chosen)
    selTag,          \* tag, the selected release's tag ("": none selected)
    finalZip,        \* finalZip ("": not derived)
    asked,           \* the prompts and blocking dialogs issued so far
    asset,           \* the download MHWILDS.zip: "none", "good" or "bad"
    requested,       \* the asset endpoint was requested
    transcoded,      \* the repackaging step was invoked
    copies,          \* the copyFile invocations so far: <<absolute src, absolute dst>>
    dlv,             \* what atomicCopy returned ("none": not called)
    said,            \* what the program told the user about the delivery copy
    tmpDir,          \* tmpDir of the staging programs: "none", "exists" or "removed"
    mErr             \* the error main reported, "" when none

tvars == <<impl, srcFiles, filters, pc, processedFiles, dWriter, progress, err,
           files, extractDir, outcome, pass>>

rvars == <<rimpl, releases, devPrefix, maxList, items, rpc>>

fvars == <<fimpl, srvVer, cacheBody, cacheEtag, fpc, fStatus, fErr, fList, fIO, fPrev>>

mvars == <<mimpl, SILENT, SKIP_DOWNLOAD, tty, cwd, dlExists, fs, mpc, typed, choice,
           selTag, finalZip, asked, asset, requested, transcoded, copies, dlv, said,
           tmpDir, mErr>>

vars == <<tvars, rvars, fvars, mvars>>

-----------------------------------------------------------------------------
(* Bounds and input domains                                                *)

MaxEntries == 3

\* Stored entry names the source archive is built from: a name the shipped
\* rules drop ("RE"), one the rule "vr" drops, survivors, a name that differs
\* from a rule only in case, a directory entry equal to the root prefix, and
\* a survivor stored with a leading "./".
Names == {"README.txt", "vr_runtime.dll", "core.dll", "Vr.txt", "MHWILDS/", "./core.dll"}

Archives == UNION {[1..n -> Names] : n \in 0..MaxEntries}

ShippedFilters == <<"RE", "vr", "xr", "VR", "XR", "DELETE", "OpenVR", "OpenXR">>

\* Rule lists a caller may pass: the shipped list, the one-rule list of the
\* worked example, no rule, a rule that only matches across the boundary of
\* root prefix and name, and a rule equal to the root prefix.
FilterChoices == {ShippedFilters, <<"vr">>, <<>>, <<"/c">>, <<"MHWILDS/">>}

\* Mutant of rootPrefix: the root folder carries the product's name.
rootPrefixProduct == "REFramework/"

\* The root directory every written entry is placed under.
rootPrefix == "MHWILDS/"

\* The Go programs that repackage: Fyne GUI, zenity GUI, staging CLI, direct
\* CLI, and the extract-then-zip CLI.
TranscodeImpls == {"fyne", "wingui", "wincli", "cli"}
Impls == TranscodeImpls \cup {"extract"}
StagingImpls == {"fyne", "wingui", "wincli"}
ProgressImpls == {"fyne", "wingui"}

NoFile == [exists |-> FALSE]
Archive(entries, fin) == [exists |-> TRUE, entries |-> entries, finalized |-> fin]

-----------------------------------------------------------------------------
(* String helpers (package strings)                                        *)

HasPrefix(s, p) ==
    /\ Len(p) <= Len(s)
    /\ SubSeq(s, 1, Len(p)) = p

Contains(s, p) ==
    \E i \in 1..(Len(s) - Len(p) + 1) : SubSeq(s, i, i + Len(p) - 1) = p

\* The filter loop of transcodeZip / unzipFiltered: skip := some rule is a
\* substring of the stored name.
\* Mutant of SkipFrom: the loop leaves after its first rule.
SkipFromFirstRuleOnly(name, rules, k) ==
    k <= Len(rules) /\ Contains(name, rules[k])

RECURSIVE SkipFrom(_, _, _)
SkipFrom(name, rules, k) ==
    IF k > Len(rules) THEN FALSE
    ELSE IF Contains(name, rules[k]) THEN TRUE
    ELSE SkipFrom(name, rules, k + 1)

Skip(name, rules) == SkipFrom(name, rules, 1)

-----------------------------------------------------------------------------
(* The run: main / runBuild around the repackaging step                    *)

Paths == {"stagingFinal", "finalZip"}

\* The dest argument of transcodeZip: the staging file in the temporary
\* workspace, or, in the direct CLI, the final archive itself.
DestPath(i) == IF i \in StagingImpls THEN "stagingFinal" ELSE "finalZip"

\* Mutant of ProgressValue: the value is computed before the entry is counted.
ProgressValueBeforeCount(i, p, t) ==
    IF i = "fyne" THEN <<p - 1, t>> ELSE <<((p - 1) * 100) \div t, 100>>

\* What onProgress receives for the processedFiles-th of totalFiles entries, as
\* a fraction <<numerator, denominator>>: float64(p)/float64(t) in the Fyne
\* GUI, int(float64(p)*100/float64(t)) out of 100 in the zenity GUI.
ProgressValue(i, p, t) ==
    IF i = "fyne" THEN <<p, t>> ELSE <<(p * 100) \div t, 100>>

Report(i, p, t) ==
    IF i \in ProgressImpls THEN Append(progress, ProgressValue(i, p, t))
    ELSE progress

\* An entry of a written archive: its stored name, whether all its bytes were
\* copied, and the index in sReader.File of the entry it was copied from (0
\* for an entry that is not a copy of a source entry).
Entry(name, complete, from) == [name |-> name, complete |-> complete, from |-> from]

\* Mutant of AddEntry: a name already written is not written again.
AddEntryUnique(w, e) ==
    IF \E k \in DOMAIN w : w[k].name = e.name THEN w ELSE Append(w, e)

\* dWriter.CreateHeader: the writer appends an entry; it does not look at the
\* names already written.
AddEntry(w, e) == Append(w, e)

\* dWriter.Create("MHWILDS/"): the explicit root directory entry.
RootEntries == <<Entry(rootPrefix, TRUE, 0)>>

\* Mutant of DestName: the stored name is copied without the root prefix.
DestNameBare(name) == name

\* Name: "MHWILDS/" + f.Name.
DestName(name) == rootPrefix \o name

\* The cache file releases.json: the catalog it holds (0: no file) and
\* whether it holds all of it.
NoBody == [ver |-> 0, whole |-> FALSE]

\* No catalog request is modelled.
FetcherIdle ==
    /\ fimpl = "fyne"
    /\ srvVer = 1
    /\ cacheBody = NoBody
    /\ cacheEtag = 0
    /\ fpc = "idle"
    /\ fStatus = 0
    /\ fErr = ""
    /\ fList = 0
    /\ fIO = "none"
    /\ fPrev = "none"

\* The directories a run touches: the working directory's usual place, the
\* user's Downloads folder, and the run's temporary workspace.
Dirs == {"work", "Downloads", "tmp"}

\* No main runs.
MainIdle ==
    /\ mimpl = "fyne"
    /\ SILENT = ""
    /\ SKIP_DOWNLOAD = ""
    /\ tty = FALSE
    /\ cwd = "work"
    /\ dlExists = FALSE
    /\ fs = <<>>
    /\ mpc = "idle"
    /\ typed = ""
    /\ choice = 0
    /\ selTag = ""
    /\ finalZip = ""
    /\ asked = {}
    /\ asset = "none"
    /\ requested = FALSE
    /\ transcoded = FALSE
    /\ copies = {}
    /\ dlv = "none"
    /\ said = "none"
    /\ tmpDir = "none"
    /\ mErr = ""

\* No resolver runs.
ResolverIdle ==
    /\ rimpl = "go"
    /\ releases = <<>>
    /\ devPrefix = ""
    /\ maxList = 20
    /\ items = <<>>
    /\ rpc = "idle"

\* The source is downloaded, the repackaging step is about to start.
Init ==
    /\ ResolverIdle
    /\ FetcherIdle
    /\ MainIdle
    /\ impl \in Impls
    /\ srcFiles \in Archives
    /\ filters \in FilterChoices
    /\ pc = "start"
    /\ processedFiles = 0
    /\ dWriter = <<>>
    /\ progress = <<>>
    /\ err = ""
    /\ files = [p \in Paths |-> NoFile]
    /\ extractDir = {}
    /\ outcome = "running"
    /\ pass = 1

\* A return of transcodeZip: the deferred dWriter.Close() runs (its result is
\* dropped) and may or may not get the central directory onto the disk, then
\* the deferred dFile.Close().
Return(e, entries, central) ==
    /\ err' = e
    /\ pc' = "returned"
    /\ files' = [files EXCEPT ![DestPath(impl)] = Archive(entries, central)]

\* transcodeZip up to its loop: zip.OpenReader(src), os.Create(dest),
\* zip.NewWriter, dWriter.Create("MHWILDS/").  A fresh zip.Writer only buffers
\* the root entry's header, so that Create does not fail.
TranscodeOpen ==
    /\ UNCHANGED <<rvars, fvars, mvars>>
    /\ pc = "start"
    /\ impl \in TranscodeImpls
    /\ \E o \in {"ok", "open source", "create dest"} :
         IF o = "ok"
         THEN /\ dWriter' = RootEntries
              /\ files' = [files EXCEPT ![DestPath(impl)] = Archive(dWriter', FALSE)]
              /\ pc' = "loop"
              /\ err' = err
         ELSE /\ err' = o
              /\ pc' = "returned"
              /\ UNCHANGED <<dWriter, files>>
    /\ UNCHANGED <<impl, srcFiles, filters, processedFiles, progress, extractDir, outcome, pass>>

\* One iteration of transcodeZip's loop over sReader.File.
TranscodeEntry ==
    /\ UNCHANGED <<rvars, fvars, mvars>>
    /\ pc = "loop"
    /\ processedFiles < Len(srcFiles)
    /\ LET p == processedFiles + 1
           name == srcFiles[p]
       IN /\ processedFiles' = p
          /\ progress' = Report(impl, p, Len(srcFiles))
          /\ IF Skip(name, filters)
             THEN UNCHANGED <<dWriter, files, err, pc>>
             ELSE \E o \in {"ok", "open entry", "create header", "copy entry"} :
                    CASE o = "ok" ->
                           /\ dWriter' = AddEntry(dWriter, Entry(DestName(name), TRUE, p))
                           /\ files' = [files EXCEPT ![DestPath(impl)] = Archive(dWriter', FALSE)]
                           /\ UNCHANGED <<err, pc>>
                      [] o = "copy entry" ->
                           /\ dWriter' = AddEntry(dWriter, Entry(DestName(name), FALSE, p))
                           /\ \E central \in BOOLEAN : Return(o, dWriter', central)
                      [] OTHER ->
                           /\ dWriter' = dWriter
                           /\ \E central \in BOOLEAN : Return(o, dWriter, central)
    /\ UNCHANGED <<impl, srcFiles, filters, extractDir, outcome, pass>>

\* Whether this copy of transcodeZip ends with `if err := dWriter.Close();
\* err != nil { return ... }`; the direct CLI only has the deferred Close.
ExplicitClose(i) == i \in {"fyne", "wingui", "wincli"}

\* transcodeZip after its loop: finalize and return.
TranscodeClose ==
    /\ UNCHANGED <<rvars, fvars, mvars>>
    /\ pc = "loop"
    /\ processedFiles = Len(srcFiles)
    /\ \E closed \in BOOLEAN :
         Return(IF closed \/ ~ExplicitClose(impl) THEN "" ELSE "close zip writer",
                dWriter, closed)
    /\ UNCHANGED <<impl, srcFiles, filters, processedFiles, dWriter, progress,
                   extractDir, outcome, pass>>

\* The caller of transcodeZip.  Direct CLI: os.Exit(1) on error, else the
\* archive is reported as created.  Staging programs: on error report and
\* return (the deferred os.RemoveAll(tmpDir) drops the staging file), else
\* copyFile(stagingFinal, finalZip).
AfterTranscode ==
    /\ UNCHANGED <<rvars, fvars, mvars>>
    /\ pc = "returned"
    /\ impl \in TranscodeImpls
    /\ pc' = "done"
    /\ IF impl = "cli"
       THEN /\ outcome' = IF err = "" THEN "built" ELSE "transcode failed"
            /\ files' = files
       ELSE IF err # ""
       THEN /\ outcome' = "transcode failed"
            /\ files' = [files EXCEPT !["stagingFinal"] = NoFile]
       ELSE \E o \in {"ok", "open", "create", "copy"} :
              /\ outcome' = IF o = "ok" THEN "built" ELSE "copy failed"
              /\ files' = [files EXCEPT
                             !["stagingFinal"] = NoFile,
                             !["finalZip"] =
                                 CASE o = "ok" -> files["stagingFinal"]
                                   [] o = "copy" -> Archive(<<>>, FALSE)
                                   [] OTHER -> @]
    /\ UNCHANGED <<impl, srcFiles, filters, processedFiles, dWriter, progress,
                   err, extractDir, pass>>

-----------------------------------------------------------------------------
(* The extract-then-zip CLI: unzipFiltered and createZip                   *)

\* f.FileInfo().IsDir(): archive/zip marks a name ending in "/" a directory.
IsDir(name) == Len(name) > 0 /\ SubSeq(name, Len(name), Len(name)) = "/"

\* The elements of a slash-separated path, empty ones included.
RECURSIVE Split(_)
Split(path) ==
    IF \A i \in 1..Len(path) : SubSeq(path, i, i) # "/" THEN <<path>>
    ELSE LET i == CHOOSE j \in 1..Len(path) :
                    /\ SubSeq(path, j, j) = "/"
                    /\ \A k \in 1..(j - 1) : SubSeq(path, k, k) # "/"
         IN <<SubSeq(path, 1, i - 1)>> \o Split(SubSeq(path, i + 1, Len(path)))

\* filepath.Clean on the elements of a relative path: empty and "." elements
\* go, ".." takes the element before it away or stays when there is none.
RECURSIVE CleanFrom(_, _, _)
CleanFrom(segs, k, acc) ==
    IF k > Len(segs) THEN acc
    ELSE LET seg == segs[k]
         IN CleanFrom(segs, k + 1,
               CASE seg \in {"", "."} -> acc
                 [] seg = ".." /\ acc # <<>> /\ acc[Len(acc)] # ".." -> SubSeq(acc, 1, Len(acc) - 1)
                 [] OTHER -> Append(acc, seg))

Clean(name) == CleanFrom(Split(name), 1, <<>>)

\* The first n elements as a path.
RECURSIVE JoinPath(_, _)
JoinPath(segs, n) ==
    IF n = 0 THEN ""
    ELSE IF n = 1 THEN segs[1]
    ELSE JoinPath(segs, n - 1) \o "/" \o segs[n]

\* unzipFiltered's guard: filepath.Join(dest, f.Name), which cleans the
\* result, must stay below dest.
IllegalPath(name) == Clean(name) = <<>> \/ Clean(name)[1] = ".."

\* What extracting one entry puts below the extraction directory, as paths
\* relative to it ("" is the directory itself, a directory ends in "/"):
\* os.MkdirAll of the joined path or of its parent, and the file when the
\* entry is one.
Materialised(name, withFile) ==
    LET c == Clean(name)
        dirs == IF IsDir(name) THEN Len(c) ELSE Len(c) - 1
    IN {""}
         \cup {JoinPath(c, n) \o "/" : n \in 1..dirs}
         \cup (IF withFile /\ ~IsDir(name) THEN {JoinPath(c, Len(c))} ELSE {})

UnzipOpen ==
    /\ UNCHANGED <<rvars, fvars, mvars>>
    /\ pc = "start"
    /\ impl = "extract"
    /\ \E ok \in BOOLEAN :
         /\ pc' = IF ok THEN "unzip" ELSE "returned"
         /\ err' = IF ok THEN "" ELSE "open source"
    /\ UNCHANGED <<impl, srcFiles, filters, processedFiles, dWriter, progress,
                   files, extractDir, outcome, pass>>

\* One iteration of unzipFiltered's loop over r.File.
UnzipEntry ==
    /\ UNCHANGED <<rvars, fvars, mvars>>
    /\ pc = "unzip"
    /\ processedFiles < Len(srcFiles)
    /\ LET name == srcFiles[processedFiles + 1]
       IN /\ processedFiles' = processedFiles + 1
          /\ IF Skip(name, filters)
             THEN UNCHANGED <<extractDir, err, pc>>
             ELSE IF IllegalPath(name)
             THEN /\ err' = "illegal file path"
                  /\ pc' = "returned"
                  /\ extractDir' = extractDir
             ELSE IF IsDir(name)
             THEN /\ extractDir' = extractDir \cup Materialised(name, FALSE)
                  /\ UNCHANGED <<err, pc>>
             ELSE \E o \in {"ok", "mkdir", "create", "open entry", "copy entry"} :
                    /\ extractDir' =
                         CASE o = "mkdir" -> extractDir
                           [] o = "create" -> extractDir \cup Materialised(name, FALSE)
                           [] OTHER -> extractDir \cup Materialised(name, TRUE)
                    /\ err' = IF o = "ok" THEN err ELSE o
                    /\ pc' = IF o = "ok" THEN pc ELSE "returned"
    /\ UNCHANGED <<impl, srcFiles, filters, dWriter, progress, files, outcome, pass>>

UnzipDone ==
    /\ UNCHANGED <<rvars, fvars, mvars>>
    /\ pc = "unzip"
    /\ processedFiles = Len(srcFiles)
    /\ pc' = "returned"
    /\ UNCHANGED <<impl, srcFiles, filters, processedFiles, dWriter, progress,
                   err, files, extractDir, outcome, pass>>

\* filepath.Walk visits a directory's names in lexical order, a directory
\* before what it holds: the order of the paths as strings when the separator
\* sorts below every other character.
WalkCharOrder == "/.0123456789ABCDEFGHIJKLMNOPQRSTUVWXYZ_abcdefghijklmnopqrstuvwxyz"

Rank(order, c) == CHOOSE i \in 1..Len(order) : SubSeq(order, i, i) = c

\* a sorts before b, character by character, in the given character order.
RECURSIVE StrLess(_, _, _)
StrLess(order, a, b) ==
    IF Len(a) = 0 THEN Len(b) > 0
    ELSE IF Len(b) = 0 THEN FALSE
    ELSE LET ra == Rank(order, SubSeq(a, 1, 1))
             rb == Rank(order, SubSeq(b, 1, 1))
         IN IF ra # rb THEN ra < rb
            ELSE StrLess(order, SubSeq(a, 2, Len(a)), SubSeq(b, 2, Len(b)))

PathLess(a, b) == StrLess(WalkCharOrder, a, b)

RECURSIVE WalkOrder(_)
WalkOrder(S) ==
    IF S = {} THEN <<>>
    ELSE LET m == CHOOSE x \in S : \A y \in S \ {x} : PathLess(x, y)
         IN <<m>> \o WalkOrder(S \ {m})

\* The entries createZip writes when every step succeeds: "MHWILDS/" for the
\* walked root, zipPath + "/" for a directory, zipPath for a file.
ZipOfWalk(S) ==
    LET w == WalkOrder(S) IN [k \in 1..Len(w) |-> Entry(rootPrefix \o w[k], TRUE, 0)]

\* main after unzipFiltered: os.Exit(1) on its error; else createZip(finalZip,
\* extractDir), os.Exit(1) on its error, else the archive is reported as
\* created and the deferred os.RemoveAll(tmpRoot) runs.  createZip's Walk
\* fails at once when the directory was never created, and its zip writer is
\* only closed by a defer.
AfterUnzip ==
    /\ UNCHANGED <<rvars, fvars, mvars>>
    /\ pc = "returned"
    /\ impl = "extract"
    /\ pc' = "done"
    /\ IF err # ""
       THEN /\ outcome' = "extract failed"
            /\ UNCHANGED <<err, files, extractDir, dWriter>>
       ELSE \E o \in {"ok", "create dest", "walk"}, central \in BOOLEAN :
              LET all == ZipOfWalk(extractDir)
              IN IF o = "create dest"
                 THEN /\ err' = o
                      /\ outcome' = "zip failed"
                      /\ UNCHANGED <<files, extractDir, dWriter>>
                 ELSE IF o = "walk" \/ extractDir = {}
                 THEN \E k \in 0..Len(all) :
                        /\ k < Len(all) \/ extractDir = {}
                        /\ err' = "walk"
                        /\ outcome' = "zip failed"
                        /\ dWriter' = SubSeq(all, 1, k)
                        /\ files' = [files EXCEPT !["finalZip"] = Archive(dWriter', central)]
                        /\ extractDir' = extractDir
                 ELSE /\ err' = ""
                      /\ outcome' = "built"
                      /\ dWriter' = all
                      /\ files' = [files EXCEPT !["finalZip"] = Archive(all, central)]
                      /\ extractDir' = {}
    /\ UNCHANGED <<impl, srcFiles, filters, processedFiles, progress, pass>>

\* The names stored in an archive, in stored order.
EntryNames(entries) == [k \in 1..Len(entries) |-> entries[k].name]

\* The built archive is handed to the same program again as its source, with
\* the same rules: transcodeZip(out, out2, filters).
Retranscode ==
    /\ UNCHANGED <<rvars, fvars, mvars>>
    /\ pc = "done"
    /\ pass = 1
    /\ impl \in TranscodeImpls
    /\ outcome = "built"
    /\ files["finalZip"].finalized
    /\ srcFiles' = EntryNames(files["finalZip"].entries)
    /\ pass' = 2
    /\ pc' = "start"
    /\ processedFiles' = 0
    /\ dWriter' = <<>>
    /\ progress' = <<>>
    /\ err' = ""
    /\ files' = [p \in Paths |-> NoFile]
    /\ outcome' = "running"
    /\ UNCHANGED <<impl, filters, extractDir>>

-----------------------------------------------------------------------------

Next ==
    \/ TranscodeOpen
    \/ TranscodeEntry
    \/ TranscodeClose
    \/ AfterTranscode
    \/ UnzipOpen
    \/ UnzipEntry
    \/ UnzipDone
    \/ AfterUnzip
    \/ Retranscode

Spec == Init /\ [][Next]_vars

-----------------------------------------------------------------------------
(* The release resolver                                                    *)

MaxReleases == 3

\* Tags of the catalog: three that match the pattern (two of them share the
\* numeric version 1050), one with three digits only, one whose build
\* identifier is followed by non-alphanumerics, one with text before "nightly-".
Tags == {"nightly-1050-abc123", "nightly-1050-def456", "nightly-1049-xyz000",
         "nightly-105-abc", "nightly-1051-ab.c", "xnightly-1050-abc"}

\* published_at, as a point in time.
Pubs == {1, 2}

Release(tag, pub) == [tag |-> tag, pub |-> pub]

ReleaseLists ==
    UNION {[1..n -> {Release(t, p) : t \in Tags, p \in Pubs}] : n \in 0..MaxReleases}

DevPrefixes == {"", "105"}

\* MAX_LIST: the default, and the value that skips the menu.
MaxLists == {20, 1}

Digits == {"0", "1", "2", "3", "4", "5", "6", "7", "8", "9"}

Alnums ==
    Digits \cup
    {"a", "b", "c", "d", "e", "f", "g", "h", "i", "j", "k", "l", "m",
     "n", "o", "p", "q", "r", "s", "t", "u", "v", "w", "x", "y", "z",
     "A", "B", "C", "D", "E", "F", "G", "H", "I", "J", "K", "L", "M",
     "N", "O", "P", "Q", "R", "S", "T", "U", "V", "W", "X", "Y", "Z"}

CharAt(s, i) == SubSeq(s, i, i)

\* The length of the longest run of characters of class cls that starts at
\* position i of s (a greedy [cls]* ).
RECURSIVE RunLen(_, _, _)
RunLen(s, i, cls) ==
    IF i > Len(s) \/ CharAt(s, i) \notin cls THEN 0
    ELSE 1 + RunLen(s, i + 1, cls)

NoMatch == <<>>

\* nightly-([0-9]{4,})-([A-Za-z0-9]+) matched at position i of tag, followed by
\* the end of the tag when anchoredEnd: <<num, build>> or NoMatch.  The three
\* classes are disjoint, so the greedy runs are the only way to match.
MatchAt(tag, i, anchoredEnd) ==
    LET lit == "nightly-"
        d0 == i + Len(lit)
        nd == RunLen(tag, d0, Digits)
        dash == d0 + nd
        nb == RunLen(tag, dash + 1, Alnums)
    IN IF /\ d0 - 1 <= Len(tag)
          /\ SubSeq(tag, i, d0 - 1) = lit
          /\ nd >= 4
          /\ dash <= Len(tag)
          /\ CharAt(tag, dash) = "-"
          /\ nb >= 1
          /\ anchoredEnd => dash + nb = Len(tag)
       THEN <<SubSeq(tag, d0, dash - 1), SubSeq(tag, dash + 1, dash + nb)>>
       ELSE NoMatch

\* re.FindStringSubmatch(r.TagName) with
\* re = ^nightly-(\d{4,})-([A-Za-z0-9]+)$ .
GoMatch(tag) == MatchAt(tag, 1, TRUE)

\* Mutant of Newer: the older release of a numeric version wins.
NewerReversed(r, cur) == r.pub < cur.pub

\* r.PublishedAt.After(cur.PublishedAt)
Newer(r, cur) == r.pub > cur.pub

\* The loop that fills numMap: numeric version -> the release kept for it.
RECURSIVE NumMapFrom(_, _, _, _)
NumMapFrom(rels, k, prefix, m) ==
    IF k > Len(rels) THEN m
    ELSE LET r == rels[k]
             g == GoMatch(r.tag)
         IN IF g = NoMatch THEN NumMapFrom(rels, k + 1, prefix, m)
            ELSE IF prefix # "" /\ ~HasPrefix(g[1], prefix)
            THEN NumMapFrom(rels, k + 1, prefix, m)
            ELSE IF g[1] \notin DOMAIN m \/ Newer(r, m[g[1]])
            THEN NumMapFrom(rels, k + 1, prefix,
                            [n \in DOMAIN m \cup {g[1]} |-> IF n = g[1] THEN r ELSE m[n]])
            ELSE NumMapFrom(rels, k + 1, prefix, m)

EmptyMap == [n \in {} |-> Release("", 0)]

NumMap(rels, prefix) == NumMapFrom(rels, 1, prefix, EmptyMap)

Item(num, r) == [num |-> num, tag |-> r.tag, pub |-> r.pub]

\* items after `for k, v := range numMap` and sort.Slice with the After
\* comparison: map iteration order is unspecified and sort.Slice is not
\* stable, so every order with no later-published item behind an earlier one.
GoItems(rels, prefix) ==
    LET m == NumMap(rels, prefix)
        n == Cardinality(DOMAIN m)
    IN {[k \in 1..n |-> Item(o[k], m[o[k]])] :
          o \in {q \in [1..n -> DOMAIN m] :
                   /\ \A i, j \in 1..n : i # j => q[i] # q[j]
                   /\ \A i, j \in 1..n : i < j => ~Newer(m[q[j]], m[q[i]])}}

ResolverInit ==
    /\ rimpl \in {"go", "jq", "py"}
    /\ releases \in ReleaseLists
    /\ devPrefix \in DevPrefixes
    /\ maxList \in MaxLists
    /\ items = <<>>
    /\ rpc = "fetched"

\* No repackaging runs.
TranscoderIdle ==
    /\ impl = "fyne"
    /\ srcFiles = <<>>
    /\ filters = ShippedFilters
    /\ pc = "idle"
    /\ processedFiles = 0
    /\ dWriter = <<>>
    /\ progress = <<>>
    /\ err = ""
    /\ files = [p \in Paths |-> NoFile]
    /\ extractDir = {}
    /\ outcome = "running"
    /\ pass = 1

\* The Go resolver, up to `if len(items) == 0`.
ResolveGo ==
    /\ UNCHANGED <<tvars, fvars, mvars>>
    /\ rpc = "fetched"
    /\ rimpl = "go"
    /\ items' \in GoItems(releases, devPrefix)
    /\ rpc' = IF items' = <<>> THEN "no releases" ELSE "resolved"
    /\ UNCHANGED <<rimpl, releases, devPrefix, maxList>>

\* A stable sort of seq; less[i][j] says that seq[i] sorts strictly before
\* seq[j].
StableSort(seq, less) ==
    LET n == Len(seq)
        pos(i) == 1 + Cardinality({j \in 1..n :
                        \/ less[j][i]
                        \/ (~less[i][j] /\ j < i)})
    IN [k \in 1..n |-> seq[CHOOSE i \in 1..n : pos(i) = k]]

Reverse(seq) == [k \in 1..Len(seq) |-> seq[Len(seq) + 1 - k]]

\* The elements of seq at the indices in keep, in their order.
Pick(seq, keep) ==
    [k \in 1..Cardinality(keep) |->
        seq[CHOOSE i \in keep : Cardinality({j \in keep : j < i}) = k - 1]]

\* The first element of every numeric version, in the order of seq.
FirstPerNum(seq) ==
    Pick(seq, {i \in DOMAIN seq : \A j \in 1..(i - 1) : seq[j].num # seq[i].num})

\* jq compares strings by code point.
AsciiOrder == "-./0123456789ABCDEFGHIJKLMNOPQRSTUVWXYZ_abcdefghijklmnopqrstuvwxyz"

\* select(.tag_name|test("^nightly-[0-9]{4,}-"))
JqTest(tag) ==
    LET nd == RunLen(tag, 9, Digits)
    IN /\ HasPrefix(tag, "nightly-")
       /\ nd >= 4
       /\ 9 + nd <= Len(tag)
       /\ CharAt(tag, 9 + nd) = "-"

\* capture("nightly-(?<n>[0-9]{4,})-[A-Za-z0-9]+"): the leftmost match anywhere
\* in the tag, or NoMatch (the release then yields no object).
JqCapture(tag) ==
    LET at == {i \in 1..Len(tag) : MatchAt(tag, i, FALSE) # NoMatch}
    IN IF at = {} THEN NoMatch
       ELSE MatchAt(tag, CHOOSE i \in at : \A j \in at : i <= j, FALSE)

\* (if ($MAX>0) then .[:$MAX] else . end), and the python loop's
\* `if maxn>0 and len(out)>=maxn: break`.
Cut(seq, max) ==
    IF max > 0 /\ max < Len(seq) THEN SubSeq(seq, 1, max) ELSE seq

\* The jq program of the shell script: map(select) | map({num, tag, pub})
\* | sort_by(.pub) | reverse | unique_by(.num) | .[:$MAX].
JqItems(rels, max) ==
    LET kept == Pick(rels, {i \in DOMAIN rels :
                               JqTest(rels[i].tag) /\ JqCapture(rels[i].tag) # NoMatch})
        objs == [k \in DOMAIN kept |-> Item(JqCapture(kept[k].tag)[1], kept[k])]
        byPub == Reverse(StableSort(objs,
                     [i \in DOMAIN objs |-> [j \in DOMAIN objs |-> objs[i].pub < objs[j].pub]]))
        byNum == StableSort(byPub,
                     [i \in DOMAIN byPub |-> [j \in DOMAIN byPub |->
                         StrLess(AsciiOrder, byPub[i].num, byPub[j].num)]])
    IN Cut(FirstPerNum(byNum), max)

\* pat.match(tag) with pat = ^nightly-(?P<n>[0-9]{4,})-(?P<h>[A-Za-z0-9]+)
PyMatch(tag) == MatchAt(tag, 1, FALSE)

\* The python3 fallback of the shell script: items.sort(key=pub,
\* reverse=True), then the first item of every num, up to maxn of them.
PyItems(rels, max) ==
    LET kept == Pick(rels, {i \in DOMAIN rels : PyMatch(rels[i].tag) # NoMatch})
        objs == [k \in DOMAIN kept |-> Item(PyMatch(kept[k].tag)[1], kept[k])]
        byPub == StableSort(objs,
                     [i \in DOMAIN objs |-> [j \in DOMAIN objs |-> objs[i].pub > objs[j].pub]])
    IN Cut(FirstPerNum(byPub), max)

\* The shell resolver with jq, up to `if [ "$COUNT" -eq 0 ]`.
ResolveJq ==
    /\ UNCHANGED <<tvars, fvars, mvars>>
    /\ rpc = "fetched"
    /\ rimpl = "jq"
    /\ items' = JqItems(releases, maxList)
    /\ rpc' = IF items' = <<>> THEN "no releases" ELSE "resolved"
    /\ UNCHANGED <<rimpl, releases, devPrefix, maxList>>

\* The shell resolver with python3.
ResolvePy ==
    /\ UNCHANGED <<tvars, fvars, mvars>>
    /\ rpc = "fetched"
    /\ rimpl = "py"
    /\ items' = PyItems(releases, maxList)
    /\ rpc' = IF items' = <<>> THEN "no releases" ELSE "resolved"
    /\ UNCHANGED <<rimpl, releases, devPrefix, maxList>>

InitResolve == TranscoderIdle /\ FetcherIdle /\ MainIdle /\ ResolverInit

NextResolve ==
    \/ ResolveGo
    \/ ResolveJq
    \/ ResolvePy

SpecResolve == InitResolve /\ [][NextResolve]_vars

-----------------------------------------------------------------------------
(* The release catalog fetcher                                             *)

MaxVersions == 2

GoPrograms == {"fyne", "wingui", "wincli", "cli", "extract"}

Programs == GoPrograms \cup {"sh"}

\* The Go programs whose 304 and 200 branches go on with an empty release
\* list where the two command line programs print an error and exit.
LenientFetch == {"fyne", "wingui", "wincli"}

\* Response statuses other than 200 and 304 the API answers with.
OtherStatuses == {403, 500}

\* The status of an answer to a conditional GET: 304 when the request carries
\* the entity tag of the server's catalog, else 200.
ServerStatus(ifNoneMatch) ==
    IF ifNoneMatch # 0 /\ ifNoneMatch = srvVer THEN 304 ELSE 200

\* json.Unmarshal / Decode / jq of a cache file: the catalog, or nothing when
\* the file does not hold a whole catalog.
Decode(body) == IF body.whole THEN body.ver ELSE 0

\* os.WriteFile(cacheBody, data, 0644): the file holds data; or it could not
\* be opened and is as before; or the write stopped part way.
WriteBody(old, ver, how) ==
    CASE how = "ok" -> [ver |-> ver, whole |-> TRUE]
      [] how = "unopened" -> old
      [] OTHER -> [ver |-> ver, whole |-> FALSE]

\* os.WriteFile(cacheEtag, newEtag, 0644), called when the response carries
\* an ETag header.
WriteEtag(old, ver, hasEtag, how) ==
    IF ~hasEtag THEN old
    ELSE CASE how = "ok" -> ver
           [] how = "unopened" -> old
           [] OTHER -> 0

\* Mutant of Persist: the entity tag is written before the body.
PersistEtagFirst(body, etag, newBody, newEtag, killed) ==
    IF killed THEN <<body, newEtag>> ELSE <<newBody, newEtag>>

\* The two cache files after the 200 branch, which writes the body and then
\* the entity tag; killed: the process died between the two writes.
Persist(body, etag, newBody, newEtag, killed) ==
    IF killed THEN <<newBody, etag>> ELSE <<newBody, newEtag>>

\* The run stops with an error; the cache files are as they were.
Stop(e) ==
    /\ fpc' = "stopped"
    /\ fErr' = e
    /\ fList' = 0
    /\ fIO' = "none"
    /\ UNCHANGED <<cacheBody, cacheEtag>>

\* The run goes on to the resolver with the release list decoded from
\* catalog list; the cache files are as they were.
Continue(list) ==
    /\ fpc' = "continue"
    /\ fErr' = ""
    /\ fList' = list
    /\ fIO' = "none"
    /\ UNCHANGED <<cacheBody, cacheEtag>>

\* The 200 branch once the response body was read and decoded.
Store(bodyHow, hasEtag, etagHow, killed) ==
    LET pair == Persist(cacheBody, cacheEtag,
                         WriteBody(cacheBody, srvVer, bodyHow),
                         WriteEtag(cacheEtag, srvVer, hasEtag, etagHow), killed)
    IN /\ cacheBody' = pair[1]
       /\ cacheEtag' = pair[2]
       /\ fpc' = IF killed THEN "killed" ELSE "continue"
       /\ fErr' = ""
       /\ fList' = IF killed THEN 0 ELSE srvVer
       /\ fIO' = IF killed THEN "cut short"
                 ELSE IF bodyHow = "ok" /\ hasEtag /\ etagHow = "ok" THEN "stored"
                 ELSE "failed"

\* The else branch of the Go programs: any other status.
UseCacheOrFail ==
    IF cacheBody.ver # 0 THEN Continue(Decode(cacheBody))
    ELSE Stop("API returned status and no cache available")

\* The cache files as a run finds them are left by earlier runs.
WriteHows == {"ok", "unopened", "partial"}

\* One run of a Go program from os.ReadFile(cacheEtag) to the end of the
\* status switch.
FetchGo ==
    /\ UNCHANGED <<tvars, rvars, mvars>>
    /\ fpc = "ready"
    /\ fimpl \in GoPrograms
    /\ UNCHANGED <<fimpl, srvVer, fPrev>>
    /\ \E answer \in {"error", "honest", "other"} :
         CASE answer = "error" ->
                /\ fStatus' = 0
                /\ Stop("Error fetching releases")
           [] answer = "other" ->
                /\ fStatus' \in OtherStatuses
                /\ UseCacheOrFail
           [] OTHER ->
                /\ fStatus' = ServerStatus(cacheEtag)
                /\ IF fStatus' = 304
                   THEN IF cacheBody.ver = 0
                        THEN IF fimpl \in LenientFetch THEN Continue(0)
                             ELSE Stop("Error opening cache")
                        ELSE IF ~cacheBody.whole
                        THEN IF fimpl \in LenientFetch THEN Continue(0)
                             ELSE Stop("Error parsing cached JSON")
                        ELSE Continue(cacheBody.ver)
                   ELSE \E valid \in BOOLEAN :
                          IF ~valid
                          THEN IF fimpl \in LenientFetch THEN Continue(0)
                               ELSE Stop("Error decoding JSON")
                          ELSE \E bodyHow \in WriteHows, etagHow \in WriteHows,
                                  hasEtag \in BOOLEAN, killed \in BOOLEAN :
                                 Store(bodyHow, hasEtag, etagHow, killed)

\* One run of the shell script from ETAG_VAL=... to the parsed RELEASE_LIST
\* (set -e: a failing curl, mv, echo or parser ends the run).
FetchSh ==
    /\ UNCHANGED <<tvars, rvars, mvars>>
    /\ fpc = "ready"
    /\ fimpl = "sh"
    /\ UNCHANGED <<fimpl, srvVer, fPrev>>
    /\ \E answer \in {"error", "honest", "other"} :
         LET cached == IF cacheBody.ver = 0
                       THEN Stop("failed to fetch releases and no cache available")
                       ELSE IF ~cacheBody.whole THEN Stop("parse")
                       ELSE Continue(cacheBody.ver)
         IN CASE answer = "error" ->
                   /\ fStatus' = 0
                   /\ Stop("curl")
              [] answer = "other" ->
                   /\ fStatus' \in OtherStatuses
                   /\ cached
              [] OTHER ->
                   /\ fStatus' = ServerStatus(cacheEtag)
                   /\ IF fStatus' = 304
                      THEN cached
                      ELSE \E valid \in BOOLEAN, moved \in BOOLEAN, hasEtag \in BOOLEAN,
                              etagHow \in {"ok", "unopened"}, killed \in BOOLEAN :
                             IF ~moved THEN Stop("mv")
                             ELSE LET body == [ver |-> srvVer, whole |-> valid]
                                      pair == Persist(cacheBody, cacheEtag, body,
                                                 WriteEtag(cacheEtag, srvVer, hasEtag, etagHow),
                                                 killed)
                                      parsed == ~killed /\ valid
                                                  /\ (hasEtag => etagHow = "ok")
                                  IN /\ cacheBody' = pair[1]
                                     /\ cacheEtag' = pair[2]
                                     /\ fpc' = IF killed THEN "killed"
                                               ELSE IF parsed THEN "continue" ELSE "stopped"
                                     /\ fErr' = IF killed \/ parsed THEN ""
                                                ELSE IF hasEtag /\ etagHow # "ok" THEN "etag"
                                                ELSE "parse"
                                     /\ fList' = IF parsed THEN srvVer ELSE 0
                                     /\ fIO' = IF killed THEN "cut short"
                                               ELSE IF valid /\ hasEtag /\ etagHow = "ok"
                                               THEN "stored"
                                               ELSE "failed"

\* The next run of any of the programs in the same working directory.
NextRun ==
    /\ UNCHANGED <<tvars, rvars, mvars>>
    /\ fpc \in {"continue", "stopped", "killed"}
    /\ fpc' = "ready"
    /\ fimpl' \in Programs
    /\ fStatus' = 0
    /\ fErr' = ""
    /\ fList' = 0
    /\ fIO' = "none"
    /\ fPrev' = fpc
    /\ UNCHANGED <<srvVer, cacheBody, cacheEtag>>

\* Upstream publishes: the catalog and its entity tag change.
Publish ==
    /\ UNCHANGED <<tvars, rvars, mvars>>
    /\ srvVer < MaxVersions
    /\ srvVer' = srvVer + 1
    /\ UNCHANGED <<fimpl, cacheBody, cacheEtag, fpc, fStatus, fErr, fList, fIO, fPrev>>

\* A first run in a directory without a cache.
InitFetch ==
    /\ TranscoderIdle
    /\ ResolverIdle
    /\ MainIdle
    /\ fimpl \in Programs
    /\ srvVer = 1
    /\ cacheBody = NoBody
    /\ cacheEtag = 0
    /\ fpc = "ready"
    /\ fStatus = 0
    /\ fErr = ""
    /\ fList = 0
    /\ fIO = "none"
    /\ fPrev = "none"

NextFetch ==
    \/ FetchGo
    \/ FetchSh
    \/ NextRun
    \/ Publish

SpecFetch == InitFetch /\ [][NextFetch]_vars

-----------------------------------------------------------------------------
(* The run: main, from the MAX_LIST prompt to the delivery.  The catalog   *)
(* request is left out (releases is the decoded list); the resolver is the *)
(* one modelled above; download and repackaging are steps with an outcome. *)

\* The catalogs of the runs: nothing qualifies; two versions with a long and
\* a short build hash; a version outside the prefix "105" and a tag the Go
\* pattern rejects.
RunCatalogs ==
    {<<Release("nightly-105-abc", 1)>>,
     <<Release("nightly-1050-abc1234", 2), Release("nightly-1049-xyz000", 1)>>,
     <<Release("nightly-2000-def456", 2), Release("nightly-1051-ab.c", 1)>>}

\* pubDate.Format("02Jan06") / date -d "$PUB_DATE_RAW" +"%d%b%y"
DateOf(pub) ==
    CASE pub = 1 -> "01Jan26"
      [] pub = 2 -> "02Jan26"
      [] OTHER -> "03Jan26"

\* The first n characters of s.
Head6(s, n) == IF Len(s) > n THEN SubSeq(s, 1, n) ELSE s

\* version: nightly-<num>-<first six characters of the build hash>, or the
\* tag itself when the pattern does not match it.
Version(t) ==
    LET m == GoMatch(t)
    IN IF m = NoMatch THEN t ELSE "nightly-" \o m[1] \o "-" \o Head6(m[2], 6)

\* ${TAG//[^a-zA-Z0-9._-]/_}
RECURSIVE CleanTag(_)
CleanTag(t) ==
    IF t = "" THEN ""
    ELSE (IF CharAt(t, 1) \in (Alnums \cup {".", "_", "-"}) THEN CharAt(t, 1) ELSE "_")
         \o CleanTag(SubSeq(t, 2, Len(t)))

\* HASH of the shell script: BASH_REMATCH of ^nightly-([0-9]+)-([A-Za-z0-9]+)$
\* (a listed tag has four digits or more, so the Go match decides), or the
\* first thirty characters of the cleaned tag.
ShVersion(t) ==
    IF GoMatch(t) # NoMatch THEN Version(t) ELSE Head6(CleanTag(t), 30)

\* finalZip / EXPECTED_ZIP
ZipName(p, t, pub) ==
    "REFramework_" \o (IF p = "sh" THEN ShVersion(t) ELSE Version(t))
                   \o "_" \o DateOf(pub) \o ".zip"

\* The archive names the runs can derive.
ZipNames ==
    UNION {{ZipName(p, c[k].tag, c[k].pub) : p \in {"sh", "cli"}, k \in DOMAIN c} :
             c \in RunCatalogs}

Path(dir, name) == [dir |-> dir, name |-> name]

AbsPaths == {Path(d, n) : d \in Dirs, n \in ZipNames}

\* filepath.Abs: a relative path (dir ".") is joined to the working directory.
Abs(path) == IF path.dir = "." THEN Path(cwd, path.name) ELSE path

\* copyFile: os.Open(src), os.Create(dst) (which truncates an existing file),
\* io.Copy, out.Close().  The copy reads src after dst was truncated.
copyFile(fsys, src, dst, how) ==
    LET s == Abs(src)
        d == Abs(dst)
        created == [fsys EXCEPT ![d] = "empty"]
        inv == {<<s, d>>}
    IN IF fsys[s] = "absent" THEN [fs |-> fsys, err |-> "open", copied |-> inv]
       ELSE IF how = "create fails" THEN [fs |-> fsys, err |-> "create", copied |-> inv]
       ELSE IF how = "copy fails"
            THEN [fs |-> [created EXCEPT ![d] = IF created[s] = "empty" THEN "empty" ELSE "partial"],
                  err |-> "copy", copied |-> inv]
       ELSE [fs |-> [created EXCEPT ![d] = created[s]], err |-> "", copied |-> inv]

\* Mutant of atomicCopy: the copy without the comparison of the two paths.
atomicCopyUnguarded(fsys, src, dst, how) == copyFile(fsys, src, dst, how)

\* atomicCopy
atomicCopy(fsys, src, dst, how) ==
    IF Abs(src) = Abs(dst)
    THEN [fs |-> fsys, err |-> "", copied |-> {}]
    ELSE copyFile(fsys, src, dst, how)

CopyHows == {"ok", "create fails", "copy fails"}

\* The programs that read SILENT; buildREFramework.go and the shell script
\* do not.
ReadsSilent == {"fyne", "wingui", "wincli", "cli"}

\* silent := os.Getenv("SILENT") == "1"
silent == mimpl \in ReadsSilent /\ SILENT = "1"

\* Mutant of SkipRequested: the test mode is never entered.
SkipRequestedNever(v) == FALSE

\* os.Getenv("SKIP_DOWNLOAD") == "1" / [ "${SKIP_DOWNLOAD:-0}" = "1" ]
SkipRequested(v) == v = "1"

\* The deferred pause() of the Windows console program: "Press Enter to
\* exit..." unless SILENT=1.
Pause(a) == IF mimpl = "wincli" /\ SILENT # "1" THEN a \cup {"press enter"} ELSE a

\* zenity.Error / zenity.Info of the zenity program: a dialog that blocks
\* until it is dismissed.
Dialog(a, name) == IF mimpl = "wingui" THEN a \cup {name} ELSE a

\* defer os.RemoveAll(tmpDir)
RemoveTmp(fsys) == [p \in DOMAIN fsys |-> IF p.dir = "tmp" THEN "absent" ELSE fsys[p]]

\* The files when main has returned: the deferred removal has run, except
\* in the Fyne program, where it runs in the goroutine of runBuild.
AtReturn(fsys) == IF mimpl = "fyne" THEN fsys ELSE RemoveTmp(fsys)

\* tmpDir after a step that leaves main at the position at.
TmpAfter(at) == IF at = "ended" /\ tmpDir = "exists" THEN "removed" ELSE tmpDir

\* main ends: by return (the deferred calls run) or by os.Exit / exit.  In
\* the Fyne program it is runBuild that ends, after fyneApp.Quit(), in a
\* goroutine of its own: its deferred calls and the return of main from
\* ShowAndRun are still to come.
End(e, a, byReturn) ==
    /\ mpc' = IF mimpl = "fyne" THEN "quit" ELSE "ended"
    /\ mErr' = e
    /\ asked' = IF byReturn THEN Pause(a) ELSE a

\* strconv.Atoi, 0 with an error for anything but a number
Atoi(s) ==
    CASE s = "1" -> 1
      [] s = "2" -> 2
      [] s = "7" -> 7
      [] OTHER -> 0

\* Values of the environment variable MAX_LIST: unset, the value that skips
\* the menu, and one that is not a positive number.
EnvValues == {"", "1", "0"}

\* maxList := 20, replaced by MAX_LIST when Atoi accepts it and n > 0 in the
\* Go programs; MAX_LIST="${MAX_LIST:-20}" in the shell script.
EnvMaxList(p, v) ==
    IF v = "" THEN 20
    ELSE IF p = "sh" THEN Atoi(v)
    ELSE IF Atoi(v) > 0 THEN Atoi(v) ELSE 20

\* A run is about to start: the catalog is decoded, at most one archive of
\* an earlier run lies in the working directory.
InitMain ==
    /\ TranscoderIdle
    /\ FetcherIdle
    /\ mimpl \in Programs
    /\ rimpl \in (IF mimpl = "sh" THEN {"jq", "py"} ELSE {"go"})
    /\ releases \in RunCatalogs
    /\ devPrefix \in DevPrefixes
    /\ maxList \in {EnvMaxList(mimpl, v) : v \in EnvValues}
    /\ items = <<>>
    /\ rpc = "setup"
    /\ SILENT \in {"", "1"}
    /\ SKIP_DOWNLOAD \in {"", "1"}
    /\ tty \in BOOLEAN
    /\ cwd \in {"work", "Downloads"}
    /\ dlExists \in BOOLEAN
    /\ cwd = "Downloads" => dlExists
    /\ \E h \in 0..Len(releases) :
         fs = [p \in AbsPaths |->
                 IF h # 0 /\ p = Path(cwd, ZipName(mimpl, releases[h].tag, releases[h].pub))
                 THEN "old" ELSE "absent"]
    /\ mpc = "start"
    /\ typed = ""
    /\ choice = 0
    /\ selTag = ""
    /\ finalZip = ""
    /\ asked = {}
    /\ asset = "none"
    /\ requested = FALSE
    /\ transcoded = FALSE
    /\ copies = {}
    /\ dlv = "none"
    /\ said = "none"
    /\ tmpDir = "none"
    /\ mErr = ""

\* The program asks how many releases to list.
AsksMaxList ==
    CASE mimpl \in {"cli", "wincli"} -> ~silent /\ tty
      [] mimpl \in {"extract", "sh"} -> tty
      [] OTHER -> ~silent

\* main up to the catalog request: MAX_LIST and the prompt for it.
Configure ==
    /\ UNCHANGED <<tvars, fvars>>
    /\ mpc = "start"
    /\ rpc = "setup"
    /\ \E answer \in {"", "1", "0", "x", "cancel"} :
         /\ answer # "" => AsksMaxList
         /\ answer = "cancel" => mimpl = "fyne"
         /\ LET a == IF AsksMaxList THEN asked \cup {"max list"} ELSE asked
            IN IF answer = "cancel"
               THEN /\ End("", a, TRUE)
                    /\ UNCHANGED <<maxList, rpc>>
               ELSE /\ maxList' = IF Atoi(answer) > 0 THEN Atoi(answer) ELSE maxList
                    /\ rpc' = "fetched"
                    /\ mpc' = "listing"
                    /\ asked' = a
                    /\ mErr' = mErr
    /\ UNCHANGED <<rimpl, releases, devPrefix, items>>
    /\ UNCHANGED <<mimpl, SILENT, SKIP_DOWNLOAD, tty, cwd, dlExists, fs, typed, choice, selTag,
                   finalZip, asset, requested, transcoded, copies, dlv, said>>
    /\ tmpDir' = TmpAfter(mpc')

\* if len(items) == 0 of the Go programs.
NoReleases ==
    /\ UNCHANGED <<tvars, fvars, rvars>>
    /\ mpc = "listing"
    /\ rpc = "no releases"
    /\ mimpl \in GoPrograms
    /\ End("Could not find any nightly numeric releases", Dialog(asked, "error dialog"),
           mimpl \in StagingImpls)
    /\ UNCHANGED <<mimpl, SILENT, SKIP_DOWNLOAD, tty, cwd, dlExists, fs, typed, choice, selTag,
                   finalZip, asset, requested, transcoded, copies, dlv, said>>
    /\ tmpDir' = TmpAfter(mpc')

\* COUNT of the shell script, as the lines of its text: the line count of
\* the parsed cache when that is newer than the catalog body, else the
\* output of `grep -c "||" || echo "0"`, where grep prints 0 and fails when
\* no line matches, so that echo adds a second line.
ShCount(list, fromCache) ==
    IF fromCache THEN <<IF Len(list) = 0 THEN 1 ELSE Len(list)>>
    ELSE IF Len(list) = 0 THEN <<0, 0>> ELSE <<Len(list)>>

\* [ "$COUNT" -eq 0 ]: false, with a complaint, when COUNT is not one integer.
CountIsZero(count) == count = <<0>>

\* limit: the number of menu lines
limit == IF maxList > Len(items) THEN Len(items) ELSE maxList

\* What can be answered at the version menu: a line typed at a console, or
\* a row of the list dialog or its Cancel button.
Answers ==
    IF mimpl \in {"fyne", "wingui"}
    THEN {"cancel"} \cup {s \in {"1", "2"} : Atoi(s) <= limit}
    ELSE {"", "0", "1", "2", "7"}

\* The menu is skipped and the first release taken.
AutoSelect ==
    CASE mimpl \in {"cli", "wincli", "wingui"} -> silent \/ (maxList = 1 /\ limit >= 1)
      [] mimpl = "fyne" -> silent \/ maxList = 1
      [] OTHER -> FALSE

\* choice after the answer s, 0 when the program exits instead.
Chosen(s) ==
    CASE mimpl \in {"cli", "wincli"} ->
            IF s = "" THEN 1
            ELSE IF s = "0" THEN 0
            ELSE IF Atoi(s) < 1 \/ Atoi(s) > limit THEN 1 ELSE Atoi(s)
      [] mimpl = "extract" ->
            IF Atoi(s) < 1 \/ Atoi(s) > limit THEN 1 ELSE Atoi(s)
      [] mimpl = "sh" ->
            LET c == IF s = "" THEN 1 ELSE Atoi(s)
            IN IF s = "0" \/ c < 1 \/ c > Len(items) THEN 0 ELSE c
      [] OTHER -> IF s = "cancel" THEN 0 ELSE Atoi(s)

\* The listing, the version menu, and the names derived from the selection.
Select ==
    /\ UNCHANGED <<tvars, fvars, rvars>>
    /\ mpc = "listing"
    /\ \/ rpc = "resolved"
       \/ rpc = "no releases" /\ mimpl = "sh"
    /\ \E fromCache \in BOOLEAN, s \in (IF AutoSelect THEN {""} ELSE Answers) :
         /\ IF mimpl = "sh" /\ CountIsZero(ShCount(items, fromCache))
            THEN /\ End("Could not find any releases matching nightly-<digits>.", asked, FALSE)
                 /\ UNCHANGED <<typed, choice, selTag, finalZip>>
            ELSE LET c == IF AutoSelect THEN 1 ELSE Chosen(s)
                     a == IF AutoSelect THEN asked ELSE asked \cup {"choose"}
                 IN /\ typed' = s
                    /\ IF c = 0
                       THEN /\ End(IF mimpl = "sh" THEN "Invalid choice" ELSE "", a, FALSE)
                            /\ UNCHANGED <<choice, selTag, finalZip>>
                       ELSE /\ choice' = c
                            /\ selTag' = items[c].tag
                            /\ finalZip' = ZipName(mimpl, items[c].tag, items[c].pub)
                            /\ mpc' = "selected"
                            /\ asked' = a
                            /\ mErr' = mErr
    /\ UNCHANGED <<mimpl, SILENT, SKIP_DOWNLOAD, tty, cwd, dlExists, fs, asset, requested,
                   transcoded, copies, dlv, said>>
    /\ tmpDir' = TmpAfter(mpc')

\* os.Stat(finalZip) succeeds
Exists(fsys, name) == fsys[Path(cwd, name)] # "absent"

\* From the selection to the download: the question whether to rebuild an
\* existing archive and the SKIP_DOWNLOAD test, in the program's order.
BeforeDownload ==
    /\ UNCHANGED <<tvars, fvars, rvars>>
    /\ mpc = "selected"
    /\ LET skip == SkipRequested(SKIP_DOWNLOAD)
           asks == IF mimpl = "sh"
                   THEN ~skip /\ Exists(fs, finalZip)
                   ELSE Exists(fs, finalZip) /\ ~silent
           a == IF asks THEN asked \cup {"rebuild"} ELSE asked
       IN \E yes \in BOOLEAN :
            /\ ~asks => yes
            /\ IF ~yes
               THEN CASE mimpl = "wincli" ->
                           /\ mpc' = "finalize"
                           /\ asked' = a
                           /\ mErr' = mErr
                      [] mimpl = "fyne" -> End("", a \cup {"info dialog"}, TRUE)
                      [] OTHER -> End("", a, mimpl = "wingui")
               ELSE IF skip
                    THEN IF mimpl \in StagingImpls
                         THEN /\ mpc' = "finalize"
                              /\ asked' = a
                              /\ mErr' = mErr
                         ELSE End("", a, mimpl # "sh")
                    ELSE /\ mpc' = "download"
                         /\ asked' = a
                         /\ mErr' = mErr
            /\ tmpDir' = IF yes /\ mimpl \in StagingImpls THEN "exists" ELSE tmpDir
    /\ UNCHANGED <<mimpl, SILENT, SKIP_DOWNLOAD, tty, cwd, dlExists, fs, typed, choice, selTag,
                   finalZip, asset, requested, transcoded, copies, dlv, said>>

\* The request of the asset endpoint and the saving of its body.  Only the
\* staging programs look at the response status; curl runs without -f.
Download ==
    /\ UNCHANGED <<tvars, fvars, rvars>>
    /\ mpc = "download"
    /\ requested' = TRUE
    /\ \E answer \in {"ok", "error", "status"} :
         IF answer = "ok" \/ (answer = "status" /\ mimpl \notin StagingImpls)
         THEN /\ asset' = IF answer = "ok" THEN "good" ELSE "bad"
              /\ mpc' = "transcode"
              /\ UNCHANGED <<asked, mErr>>
         ELSE /\ End("Error downloading", Dialog(asked, "error dialog"), mimpl \in StagingImpls)
              /\ asset' = asset
    /\ UNCHANGED <<mimpl, SILENT, SKIP_DOWNLOAD, tty, cwd, dlExists, fs, typed, choice, selTag,
                   finalZip, transcoded, copies, dlv, said>>
    /\ tmpDir' = TmpAfter(mpc')

\* The repackaging step: into the temporary workspace in the staging
\* programs, straight to finalZip in the others (os.Create truncates it at
\* once; zip writes a temporary file and renames it when it is done).
Repackage ==
    /\ UNCHANGED <<tvars, fvars, rvars>>
    /\ mpc = "transcode"
    /\ transcoded' = TRUE
    /\ LET dest == Path(IF mimpl \in StagingImpls THEN "tmp" ELSE cwd, finalZip)
       IN \E how \in {"ok", "fails"} :
            /\ asset = "bad" => how = "fails"
            /\ IF how = "ok"
               THEN /\ fs' = [fs EXCEPT ![dest] = "built"]
                    /\ IF mimpl \in StagingImpls
                       THEN /\ mpc' = "move"
                            /\ UNCHANGED <<asked, mErr>>
                       ELSE End("", asked, TRUE)
               ELSE /\ fs' = IF asset = "bad" \/ mimpl \in StagingImpls \/ mimpl = "sh"
                             THEN fs ELSE [fs EXCEPT ![dest] = "partial"]
                    /\ End("Error creating archive", Dialog(asked, "error dialog"),
                           mimpl \in StagingImpls)
    /\ UNCHANGED <<mimpl, SILENT, SKIP_DOWNLOAD, tty, cwd, dlExists, typed, choice, selTag,
                   finalZip, asset, requested, copies, dlv, said>>
    /\ tmpDir' = TmpAfter(mpc')

\* What the program tells the user after atomicCopy returned e: the silent
\* branch of the Windows console program prints on success only, that of the
\* zenity program drops the result, that of the Fyne program logs "Copied to
\* Downloads" whatever the result; the interactive branches tell either.
Told(e) ==
    IF silent
    THEN CASE mimpl = "wincli" -> IF e = "" THEN "copied" ELSE "none"
           [] mimpl = "wingui" -> "none"
           [] OTHER -> "copied"
    ELSE IF e = "" THEN "copied" ELSE "copy failed"

\* copyFile(stagingFinal, finalZip) of the staging programs.
Move ==
    /\ UNCHANGED <<tvars, fvars, rvars>>
    /\ mpc = "move"
    /\ \E how \in CopyHows :
         LET r == copyFile(fs, Path("tmp", finalZip), Path(".", finalZip), how)
         IN /\ copies' = copies \cup r.copied
            /\ IF r.err = ""
               THEN /\ fs' = r.fs
                    /\ mpc' = "finalize"
                    /\ UNCHANGED <<asked, mErr>>
               ELSE /\ fs' = AtReturn(r.fs)
                    /\ End("Error moving final archive", Dialog(asked, "error dialog"), TRUE)
    /\ UNCHANGED <<mimpl, SILENT, SKIP_DOWNLOAD, tty, cwd, dlExists, typed, choice, selTag,
                   finalZip, asset, requested, transcoded, dlv, said>>
    /\ tmpDir' = TmpAfter(mpc')

\* finalize: of the staging programs: the check that finalZip exists and the
\* copy to the Downloads folder.
Finalize ==
    /\ UNCHANGED <<tvars, fvars, rvars>>
    /\ mpc = "finalize"
    /\ IF ~Exists(fs, finalZip)
       THEN /\ End("Final archive not found", Dialog(asked, "error dialog"), TRUE)
            /\ fs' = AtReturn(fs)
            /\ UNCHANGED <<copies, dlv, said>>
       ELSE IF ~dlExists
       THEN /\ End("", IF mimpl = "wincli" THEN asked ELSE asked \cup {"info dialog"}, TRUE)
            /\ fs' = AtReturn(fs)
            /\ UNCHANGED <<copies, dlv, said>>
       ELSE \E yes \in BOOLEAN, how \in CopyHows :
              /\ silent => yes
              /\ ~yes => how = "ok"
              /\ LET a == IF silent THEN asked ELSE asked \cup {"copy"}
                     r == atomicCopy(fs, Path(".", finalZip), Path("Downloads", finalZip), how)
                 IN IF yes
                    THEN /\ fs' = AtReturn(r.fs)
                         /\ copies' = copies \cup r.copied
                         /\ dlv' = IF r.err = "" THEN "ok" ELSE "error"
                         /\ said' = Told(r.err)
                         /\ End("", IF silent \/ mimpl = "wincli" THEN a
                                    ELSE IF r.err = "" THEN a \cup {"info dialog"}
                                    ELSE Dialog(a, "error dialog"),
                                TRUE)
                    ELSE /\ fs' = AtReturn(fs)
                         /\ UNCHANGED <<copies, dlv, said>>
                         /\ End("", IF mimpl = "wincli" THEN a ELSE a \cup {"info dialog"}, TRUE)
    /\ UNCHANGED <<mimpl, SILENT, SKIP_DOWNLOAD, tty, cwd, dlExists, typed, choice, selTag,
                   finalZip, asset, requested, transcoded>>
    /\ tmpDir' = TmpAfter(mpc')

\* The deferred os.RemoveAll(tmpDir) of runBuild, when runBuild has called
\* fyneApp.Quit() and returned.
RunDeferred ==
    /\ UNCHANGED <<tvars, fvars, rvars>>
    /\ mimpl = "fyne"
    /\ mpc = "quit"
    /\ mpc' = "returned"
    /\ fs' = RemoveTmp(fs)
    /\ tmpDir' = IF tmpDir = "exists" THEN "removed" ELSE tmpDir
    /\ UNCHANGED <<SILENT, SKIP_DOWNLOAD, tty, cwd, dlExists, typed, choice, selTag, finalZip,
                   asked, asset, requested, transcoded, copies, dlv, said, mErr, mimpl>>

\* fyneWin.ShowAndRun() returns once fyneApp.Quit() was called, main returns
\* and the process exits, whatever runBuild's goroutine is doing.
Exit ==
    /\ UNCHANGED <<tvars, fvars, rvars>>
    /\ mimpl = "fyne"
    /\ mpc \in {"quit", "returned"}
    /\ mpc' = "ended"
    /\ UNCHANGED <<SILENT, SKIP_DOWNLOAD, tty, cwd, dlExists, fs, typed, choice, selTag,
                   finalZip, asked, asset, requested, transcoded, copies, dlv, said, tmpDir,
                   mErr, mimpl>>

NextMain ==
    \/ Configure
    \/ ResolveGo
    \/ ResolveJq
    \/ ResolvePy
    \/ NoReleases
    \/ Select
    \/ BeforeDownload
    \/ Download
    \/ Repackage
    \/ Move
    \/ Finalize
    \/ RunDeferred
    \/ Exit

SpecMain == InitMain /\ [][NextMain]_vars

-----------------------------------------------------------------------------
(* Properties of the transcoder                                            *)

\* Some rule of the list occurs in the name as a contiguous substring, letter
\* case included (stated without the code's loop).
RuleOccursIn(name, rules) ==
    \E k \in DOMAIN rules :
       \E i \in 0..Len(name) :
          /\ i + Len(rules[k]) <= Len(name)
          /\ \A j \in 1..Len(rules[k]) :
                SubSeq(name, i + j, i + j) = SubSeq(rules[k], j, j)

Survivors(names, rules) == SelectSeq(names, LAMBDA n : ~RuleOccursIn(n, rules))

Dropped(names, rules) == {i \in DOMAIN names : RuleOccursIn(names[i], rules)}

\* transcodeZip has returned nil and its caller has not acted yet.
TranscodeSucceeded ==
    /\ impl \in TranscodeImpls
    /\ pc = "returned"
    /\ err = ""

DestEntries == files[DestPath(impl)].entries

\* C1: an entry whose path contains a rule is never written, and after a
\* successful transcodeZip a source entry is in the destination if and only if
\* its path contains no rule as a case-sensitive substring.
C1_CopiedIffNoRuleMatches ==
    impl \in TranscodeImpls =>
      /\ \A k \in DOMAIN dWriter :
            dWriter[k].from > 0 => ~RuleOccursIn(srcFiles[dWriter[k].from], filters)
      /\ TranscodeSucceeded =>
            \A i \in DOMAIN srcFiles :
               (\E k \in DOMAIN DestEntries : DestEntries[k].from = i)
                  <=> ~RuleOccursIn(srcFiles[i], filters)

\* A successful job with the one rule "vr": "vr_runtime.dll" was dropped and
\* "Vr.txt", which differs from the rule in case only, was copied.
C1_Witness ==
    /\ TranscodeSucceeded
    /\ filters = <<"vr">>
    /\ srcFiles = <<"Vr.txt", "vr_runtime.dll">>
    /\ EntryNames(DestEntries) = <<"MHWILDS/", "MHWILDS/Vr.txt">>

\* C2: after a successful transcodeZip the destination holds the root
\* directory entry first, then the surviving source entries in source order,
\* each named rootPrefix + originalPath; the root entry alone when nothing
\* survives.
C2_RootThenSurvivorsInOrder ==
    TranscodeSucceeded =>
      LET sv == Survivors(srcFiles, filters)
      IN EntryNames(DestEntries) =
            <<"MHWILDS/">> \o [k \in 1..Len(sv) |-> "MHWILDS/" \o sv[k]]

\* The worked example of the specification.
C2_Witness ==
    /\ TranscodeSucceeded
    /\ filters = <<"vr">>
    /\ srcFiles = <<"README.txt", "vr_runtime.dll", "core.dll">>
    /\ EntryNames(DestEntries) = <<"MHWILDS/", "MHWILDS/README.txt", "MHWILDS/core.dll">>

\* A successful job in which every source entry was filtered out.
C2_WitnessAllFiltered ==
    /\ TranscodeSucceeded
    /\ Len(srcFiles) > 0
    /\ EntryNames(DestEntries) = <<"MHWILDS/">>

\* C3: N source entries of which M match a rule give exactly N - M + 1
\* destination entries, duplicates and an entry equal to the root prefix
\* included.
C3_EntryCount ==
    TranscodeSucceeded =>
      Len(DestEntries) = Len(srcFiles) - Cardinality(Dropped(srcFiles, filters)) + 1

\* A successful job whose source holds a name twice, an entry equal to the
\* root prefix, and a filtered entry.
C3_Witness ==
    /\ TranscodeSucceeded
    /\ pass = 1
    /\ filters = ShippedFilters
    /\ srcFiles = <<"core.dll", "MHWILDS/", "core.dll">>
    /\ Len(DestEntries) = 4

\* C4: when opening, creating or copying an entry fails, the run ends with no
\* archive of that job at the final artifact path.
C4_NoPartialArchiveAtFinalPath ==
    (/\ impl \in TranscodeImpls
     /\ pc = "done"
     /\ err \in {"open entry", "create header", "copy entry"})
       => ~files["finalZip"].exists

\* C5: transcodeZip returns nil only with the central directory written, and
\* an archive its caller reports as built is a finalized one.
C5_SuccessOnlyAfterFinalize ==
    impl \in TranscodeImpls =>
      /\ TranscodeSucceeded => files[DestPath(impl)].finalized
      /\ (pc = "done" /\ outcome = "built") => files["finalZip"].finalized

\* Progress values are fractions <<numerator, denominator>>.
FracLeq(a, b) == a[1] * b[2] <= b[1] * a[2]

FracIsOne(a) == a[1] = a[2]

ProgressInRange == \A k \in DOMAIN progress : 0 <= progress[k][1] /\ progress[k][1] <= progress[k][2]

ProgressMonotone ==
    \A k \in DOMAIN progress : k < Len(progress) => FracLeq(progress[k], progress[k + 1])

\* transcodeZip got past its loop: every source entry was considered.
LoopCompleted ==
    /\ impl \in ProgressImpls
    /\ pc \in {"returned", "done"}
    /\ processedFiles = Len(srcFiles)
    /\ err \notin {"open source", "create dest"}

\* C6 as stated: for every source archive, one with zero entries included,
\* the reported values are non-decreasing, lie in [0,1], and the last one is
\* 1.0, reported when the last source entry is considered.
C6_ProgressEndsAtOneAlways ==
    impl \in ProgressImpls =>
      /\ ProgressInRange
      /\ ProgressMonotone
      /\ LoopCompleted => (progress # <<>> /\ FracIsOne(progress[Len(progress)]))

\* C6 amended: the values are non-decreasing and lie in [0,1]; one value is
\* reported per entry considered, and the value is 1.0 exactly for the last
\* source entry, however many were skipped; for an archive with zero entries
\* onProgress is never called, so no 1.0 is reported.
C6_ProgressEndsAtOneWhenNonEmpty ==
    impl \in ProgressImpls =>
      /\ ProgressInRange
      /\ ProgressMonotone
      /\ Len(progress) = processedFiles
      /\ \A k \in DOMAIN progress : FracIsOne(progress[k]) <=> k = Len(srcFiles)
      /\ (LoopCompleted /\ Len(srcFiles) > 0) => FracIsOne(progress[Len(progress)])
      /\ Len(srcFiles) = 0 => progress = <<>>

\* A zenity job over three entries, all of them filtered out, that reported
\* 33, 66, 100.
C6_Witness ==
    /\ impl = "wingui"
    /\ pc = "returned"
    /\ err = ""
    /\ Len(srcFiles) = 3
    /\ EntryNames(dWriter) = <<"MHWILDS/">>
    /\ progress = <<(<<33, 100>>), (<<66, 100>>), (<<100, 100>>)>>

\* C7: no Go program materialises a source entry as a file or directory on
\* disk while it filters and repackages.
C7_NoEntryMaterialised == extractDir = {}

\* transcodeZip has returned nil for a source that is the output of the
\* first job.
SecondPassSucceeded == TranscodeSucceeded /\ pass = 2

NothingDropped == Len(DestEntries) = Len(srcFiles) + 1

NoRuleInsideRoot == ~RuleOccursIn("MHWILDS/", filters)

\* No rule begins with a non-empty suffix of the root prefix, so no rule can
\* lie across the boundary between root prefix and original path.
NoRuleAcrossBoundary ==
    \A k \in DOMAIN filters :
       \A i \in 1..Len("MHWILDS/") :
          ~HasPrefix(filters[k], SubSeq("MHWILDS/", i, Len("MHWILDS/")))

\* C8 as stated: the second pass drops nothing whenever no rule is a
\* substring of the root prefix, and in particular with the shipped rules.
C8_IdempotentIfNoRuleInRoot ==
    SecondPassSucceeded =>
      /\ NoRuleInsideRoot => NothingDropped
      /\ filters = ShippedFilters => NothingDropped

\* C8 amended: the second pass drops nothing whenever no rule is a substring
\* of the root prefix and no rule begins with a non-empty suffix of the root
\* prefix; with the shipped rules and root MHWILDS/ it drops nothing.
C8_IdempotentIfNoRuleTouchesRoot ==
    SecondPassSucceeded =>
      /\ (NoRuleInsideRoot /\ NoRuleAcrossBoundary) => NothingDropped
      /\ filters = ShippedFilters => NothingDropped

\* A second pass with the shipped rules over an output that kept two files.
C8_Witness ==
    /\ SecondPassSucceeded
    /\ filters = ShippedFilters
    /\ srcFiles = <<"MHWILDS/", "MHWILDS/core.dll", "MHWILDS/Vr.txt">>
    /\ Len(DestEntries) = 4

-----------------------------------------------------------------------------
(* Properties of the resolver                                              *)

\* The tag is "nightly-", nd >= 4 digits, "-", nb >= 1 alphanumerics, and
\* nothing else (the pattern of the specification, anchored at both ends).
TagShape(tag, nd, nb) ==
    /\ Len(tag) = 8 + nd + 1 + nb
    /\ SubSeq(tag, 1, 8) = "nightly-"
    /\ \A i \in 9..(8 + nd) : SubSeq(tag, i, i) \in Digits
    /\ SubSeq(tag, 9 + nd, 9 + nd) = "-"
    /\ \A i \in (10 + nd)..Len(tag) : SubSeq(tag, i, i) \in Alnums

TagQualifies(tag) ==
    \E nd \in 4..Len(tag) : \E nb \in 1..Len(tag) : TagShape(tag, nd, nb)

\* The numeric version of a qualifying tag.
TagNum(tag) ==
    LET nd == CHOOSE d \in 4..Len(tag) : \E nb \in 1..Len(tag) : TagShape(tag, d, nb)
    IN SubSeq(tag, 9, 8 + nd)

\* The release passes the tag pattern and the numeric prefix filter.
Qualifying(r) ==
    /\ TagQualifies(r.tag)
    /\ devPrefix = "" \/
         (Len(devPrefix) <= Len(TagNum(r.tag))
            /\ SubSeq(TagNum(r.tag), 1, Len(devPrefix)) = devPrefix)

QualifyingWithNum(n) ==
    {k \in DOMAIN releases : Qualifying(releases[k]) /\ TagNum(releases[k].tag) = n}

GoResolved == rimpl = "go" /\ rpc \in {"resolved", "no releases"}

C10_OnlyMatchingTagsResolved ==
    \A i \in DOMAIN items : TagQualifies(items[i].tag)

\* C11: the resolved list is ordered by publishedAt descending: of every
\* adjacent pair the earlier entry's publishedAt is at least the later one's.
C11_SortedByPubDescending ==
    \A i \in 1..(Len(items) - 1) : items[i].pub >= items[i + 1].pub

\* The digit string num starts with the digit string prefix.
StartsWithDigits(num, prefix) ==
    /\ Len(prefix) <= Len(num)
    /\ \A j \in 1..Len(prefix) : SubSeq(num, j, j) = SubSeq(prefix, j, j)

\* C12: with a non-empty DEV_PREFIX every entry of the resolved list has a
\* numeric version that starts with it as a string; with an empty DEV_PREFIX
\* every release that matches the tag pattern has its numeric version in
\* the list, unless the list was cut at MAX_LIST.
C12_PrefixFilterApplied ==
    rpc \in {"resolved", "no releases"} =>
      /\ devPrefix # "" =>
           \A i \in DOMAIN items : StartsWithDigits(items[i].num, devPrefix)
      /\ devPrefix = "" =>
           \A k \in DOMAIN releases :
              TagQualifies(releases[k].tag) =>
                 \/ \E i \in DOMAIN items : items[i].num = TagNum(releases[k].tag)
                 \/ Len(items) >= maxList

-----------------------------------------------------------------------------
(* Properties of the fetcher                                               *)

\* A run has handled the answer to its catalog request.
FetchHandled == fpc \in {"continue", "stopped"}

\* C14: after a 304 answer the release list is the one decoded from the
\* cached body; when there is no cached body to read the run stops with an
\* error, and it never goes on to the resolver with an empty release list.
C14_NotModifiedUsesCache ==
    (FetchHandled /\ fStatus = 304) =>
       /\ cacheBody.ver = 0 => fpc = "stopped"
       /\ fpc = "continue" => fList # 0 /\ fList = cacheBody.ver

\* C15: a run that got a 200 answer leaves the cache files holding the body
\* and the entity tag of that answer, and its release list is the one decoded
\* from that body.
C15_SuccessIsCached ==
    [][(fpc = "ready" /\ fStatus' = 200 /\ fpc' \in {"continue", "stopped"}) =>
          /\ cacheBody' = [ver |-> srvVer, whole |-> TRUE]
          /\ cacheEtag' = srvVer
          /\ fList' = srvVer]_vars

\* The error of a run names the response status.
NamesStatus(e) == e = "API returned status and no cache available"

\* The errors of a run that could not get a release list from anywhere.
FetchErrors ==
    {"API returned status and no cache available",
     "failed to fetch releases and no cache available"}

\* C16: on an answer with a status other than 200 and 304 the cache files
\* stay as they are; with a cached body the run does not fail for want of a
\* release list and uses the list decoded from that body, without one it
\* stops with an error that names the status.
C16_OtherStatusFallsBack ==
    [][(fpc = "ready" /\ fStatus' \in OtherStatuses) =>
          /\ cacheBody' = cacheBody
          /\ cacheEtag' = cacheEtag
          /\ IF cacheBody.ver # 0
             THEN /\ fErr' \notin FetchErrors
                  /\ fpc' = "continue" => fList' = Decode(cacheBody)
             ELSE /\ fpc' = "stopped"
                  /\ NamesStatus(fErr')]_vars

\* The cache holds the server's catalog whole, as a run killed between its
\* two writes left it.
BodyAheadOfTag ==
    /\ fPrev = "killed"
    /\ cacheBody = [ver |-> srvVer, whole |-> TRUE]

\* C17: a run killed between the two cache writes leaves the entity tag file
\* as it was, not naming the server's catalog; the next run, against the same
\* catalog, is answered 200 and not 304, and when its writes succeed body and
\* tag are those of that catalog; and no run uses a release list older than
\* the body the cache held.
C17_KillBetweenWritesCostsOneFetch ==
    [][/\ (fpc = "ready" /\ fpc' = "killed") =>
             /\ cacheEtag' = cacheEtag
             /\ cacheEtag' # srvVer
             /\ cacheBody' = cacheBody \/ cacheBody'.ver = srvVer
       /\ (fpc = "ready" /\ BodyAheadOfTag /\ fStatus' \in {200, 304}) =>
             /\ fStatus' = 200
             /\ fIO' = "stored" =>
                   /\ cacheBody' = [ver |-> srvVer, whole |-> TRUE]
                   /\ cacheEtag' = srvVer
                   /\ fpc' = "continue" /\ fList' = srvVer
       /\ (fpc = "ready" /\ fpc' = "continue" /\ fList' # 0) =>
             fList' >= cacheBody.ver]_vars

\* A run killed between its writes was followed by a run that was answered
\* 200 and stored body and tag of the unchanged catalog.
C17_Witness ==
    /\ fPrev = "killed"
    /\ fpc = "continue"
    /\ fStatus = 200
    /\ fIO = "stored"
    /\ cacheBody = [ver |-> srvVer, whole |-> TRUE]
    /\ cacheEtag = srvVer
    /\ fList = srvVer

-----------------------------------------------------------------------------
(* Properties of the run                                                   *)

\* No release of the catalog passes the tag pattern and the prefix filter.
NoneQualify == \A k \in DOMAIN releases : ~Qualifying(releases[k])

NoQualifyingReleases ==
    {"Could not find any nightly numeric releases",
     "Could not find any releases matching nightly-<digits>."}

\* C13: when no release passes the tag pattern and the prefix filter, then
\* once the resolver is through no release is ever selected, the asset
\* endpoint is never requested, nothing is repackaged and nothing delivered,
\* and the run ends with the no-qualifying-releases error.
C13_NoReleasesEndsRun ==
    (NoneQualify /\ rpc \in {"resolved", "no releases"}) =>
        /\ choice = 0
        /\ selTag = ""
        /\ ~requested
        /\ ~transcoded
        /\ copies = {}
        /\ dlv = "none"
        /\ mpc = "ended" => mErr \in NoQualifyingReleases

\* C18: a call of atomicCopy whose two paths have the same absolute path
\* returns success, invokes no copyFile and leaves the file's content as it
\* was; and copyFile is never invoked on one absolute path as both source and
\* destination.
C18_SamePathCopiesNothing ==
    [][/\ (mpc = "finalize" /\ dlv' # "none"
             /\ Abs(Path(".", finalZip)) = Abs(Path("Downloads", finalZip))) =>
             /\ dlv' = "ok"
             /\ copies' = copies
             /\ fs'[Abs(Path("Downloads", finalZip))] = fs[Abs(Path("Downloads", finalZip))]
       /\ \A c \in copies' : c[1] # c[2]]_vars

\* A run in the Downloads folder built its archive and handed it to
\* atomicCopy, whose two paths were the same file.
C18_Witness ==
    /\ mpc = "ended"
    /\ cwd = "Downloads"
    /\ dlv = "ok"
    /\ transcoded
    /\ fs[Path("Downloads", finalZip)] = "built"
    /\ copies = {<<Path("tmp", finalZip), Path("Downloads", finalZip)>>}

\* C19: with SILENT=1 no prompt or blocking dialog is issued; the first entry
\* of the resolved list is the one selected; a run that selected a release
\* and is not in test mode goes on to the download, whether or not the
\* archive exists; and a run of a program with a Downloads step that ends
\* without error, with the Downloads folder present, has handed the archive
\* to atomicCopy.
C19_SilentRunsUnattended ==
    SILENT = "1" =>
        /\ asked = {}
        /\ choice \in {0, 1}
        /\ (mpc = "ended" /\ choice # 0 /\ SKIP_DOWNLOAD # "1") => requested
        /\ (mpc = "ended" /\ choice # 0 /\ mErr = "" /\ dlExists /\ mimpl \in StagingImpls) =>
              dlv # "none"

\* C20: with SKIP_DOWNLOAD=1 no step of the run requests the asset endpoint,
\* invokes the repackaging step or changes any archive in the working
\* directory; and the selected tag and the archive name are those that the
\* listing and the answer at the menu determine, as without SKIP_DOWNLOAD.
C20_SkipDownloadTouchesNothing ==
    [][SKIP_DOWNLOAD = "1" =>
         /\ ~requested'
         /\ ~transcoded'
         /\ asset' = "none"
         /\ \A n \in ZipNames : fs'[Path(cwd, n)] = fs[Path(cwd, n)]
         /\ (mpc = "listing" /\ selTag' # "") =>
               /\ choice' = (IF AutoSelect THEN 1 ELSE Chosen(typed'))
               /\ selTag' = items[choice'].tag
               /\ finalZip' = ZipName(mimpl, items[choice'].tag, items[choice'].pub)]_vars

\* A test-mode run of a staging program selected the second release of the
\* menu, found its archive in the working directory and delivered it.
C20_Witness ==
    /\ SKIP_DOWNLOAD = "1"
    /\ mpc = "ended"
    /\ mErr = ""
    /\ choice = 2
    /\ selTag = items[2].tag
    /\ fs[Path(cwd, finalZip)] = "old"
    /\ cwd = "work"
    /\ dlv = "ok"
    /\ fs[Path("Downloads", finalZip)] = "old"

-----------------------------------------------------------------------------
(* Properties of the order of the steps                                    *)

\* C21: the repackaging step is invoked only on a download that was answered
\* 200 and saved whole; and a run whose download failed or was answered with
\* another status ends with the download error, the repackaging step not
\* invoked.
C21_TranscodeOnlyAfterGoodDownload ==
    /\ transcoded => asset = "good"
    /\ (mpc = "ended" /\ requested /\ asset # "good") =>
          (~transcoded /\ mErr = "Error downloading")

\* C22: the archive is handed to atomicCopy for the Downloads folder only in
\* a run whose repackaging step was invoked and succeeded, so that the file
\* delivered is the one this run built.
C22_DeliveryOnlyAfterTranscode ==
    dlv # "none" => (transcoded /\ fs[Path(cwd, finalZip)] = "built")

\* C28: in a run that found an archive of the derived name in the working
\* directory, that archive is left as it was unless the run built a complete
\* one in its place; a failed download or repackaging step does not change it.
C28_ExistingArchiveSurvivesFailure ==
    [][(finalZip # "" /\ fs[Path(cwd, finalZip)] = "old" /\ mpc \in {"download", "transcode"}) =>
          fs'[Path(cwd, finalZip)] \in {"old", "built"}]_vars

\* Every surviving entry of the source is in the destination, whole.
AllSurvivorsCopied ==
    \A i \in DOMAIN srcFiles :
        ~Skip(srcFiles[i], filters) =>
            \E k \in DOMAIN dWriter : dWriter[k].from = i /\ dWriter[k].complete

\* C30: when the last value handed to onProgress is the final one (1.0 or
\* 100), every surviving source entry is in the destination with all its
\* bytes, and the job does not return an error from opening, creating or
\* copying an entry.
C30_FinalProgressMeansAllCopied ==
    (impl \in ProgressImpls /\ progress # <<>> /\ FracIsOne(progress[Len(progress)])) =>
        /\ AllSurvivorsCopied
        /\ err \notin {"open entry", "create header", "copy entry"}

\* The resolved list is the only one the resolver can produce from the
\* release list and the prefix filter.
OnlyOutcome ==
    CASE rimpl = "go" -> GoItems(releases, devPrefix) = {items}
      [] rimpl = "jq" -> items = JqItems(releases, maxList)
      [] OTHER -> items = PyItems(releases, maxList)

\* C26: the release list and the prefix filter determine the resolved list,
\* order included, also when distinct numeric versions share a publishedAt.
C26_ResolutionDeterministic ==
    rpc \in {"resolved", "no releases"} => OnlyOutcome

\* The entity tag on disk, when there is one, was sent with the body on disk.
CachePaired ==
    cacheEtag # 0 => cacheBody = [ver |-> cacheEtag, whole |-> TRUE]

\* C27: a fetch that runs to its end on paired cache files (an empty cache
\* included) leaves them paired: the entity tag on disk is the one sent with
\* the body on disk.
C27_CacheStaysPaired ==
    [][(fpc = "ready" /\ fpc' \in {"continue", "stopped"} /\ CachePaired) => CachePaired']_vars

\* C23: a failure of the delivery copy is presented to the user as a failure
\* of the delivery, in silent mode as in interactive mode, and no success of
\* the copy is reported or logged when atomicCopy returned an error.
C23_DeliveryFailureIsPresented ==
    /\ dlv = "error" => said = "copy failed"
    /\ said = "copied" => dlv = "ok"

\* C29: in the Fyne program the temporary workspace runBuild created has been
\* removed when the process has exited, on every path on which runBuild
\* calls fyneApp.Quit() after creating it.
C29_WorkspaceRemovedBeforeExit ==
    (mimpl = "fyne" /\ mpc = "ended" /\ tmpDir # "none") => tmpDir = "removed"

\* C25: in every program and for every input, maxList is at least 1; when
\* the selection is reached, limit = min(maxList, number of resolved entries)
\* is at least 1; and the choice that indexes the resolved list is between 1
\* and limit, so that only a displayed entry is selected.
C25_ChoiceWithinLimit ==
    /\ maxList >= 1
    /\ ("choose" \in asked \/ choice # 0) => limit >= 1
    /\ choice # 0 => (1 <= choice /\ choice <= limit /\ choice <= Len(items))

\* The regular-file paths of an archive.
FilePaths(entries) == {entries[k].name : k \in {j \in DOMAIN entries : ~IsDir(entries[j].name)}}

\* The regular files of the source that pass the rules, under the root: what
\* transcodeZip stores for them.
StreamedPaths ==
    {rootPrefix \o srcFiles[i] :
        i \in {j \in DOMAIN srcFiles : ~Skip(srcFiles[j], filters) /\ ~IsDir(srcFiles[j])}}

\* C24: for one source archive and one rule list, unzipFiltered followed by
\* createZip and the streaming transcodeZip build archives with the same set
\* of regular-file entry paths under MHWILDS/.
C24_PipelinesAgreeOnFiles ==
    (pass = 1 /\ outcome = "built" /\ files["finalZip"].exists) =>
        FilePaths(files["finalZip"].entries) = StreamedPaths

====
